---- MODULE Spec2Model ----
(***************************************************************************)
(* Model of distribution_math: Gaus1D (gaus_1D.py) and Multinomial         *)
(* (multinomial.py).  A driver holds a few names, each bound to an object  *)
(* on a heap; objects refer to their dictionaries by address, so that      *)
(* copy.deepcopy, in-place dictionary writes and attribute rebinding are   *)
(* distinguished.  Python floats are modelled by exact rationals           *)
(* <<numerator, denominator>> in lowest terms; None is <<0, 0>>.           *)
(***************************************************************************)
EXTENDS Integers, Sequences, FiniteSets, TLC

VARIABLES env, heap, last, calls, relabelled

vars == <<env, heap, last, calls, relabelled>>

\* ------------------------------------------------------------------ bounds
MaxCalls == 3

\* ------------------------------------------------------------ float values
None == <<0, 0>>

IsNone(x) == x[2] = 0

Abs(i) == IF i < 0 THEN -i ELSE i

RECURSIVE Gcd(_, _)
Gcd(a, b) == IF b = 0 THEN a ELSE Gcd(b, a % b)

Frac(p, q) ==
  LET s == IF q < 0 THEN -1 ELSE 1
      g == Gcd(Abs(p), Abs(q))
  IN  <<(s * p) \div g, (s * q) \div g>>

Num(i) == <<i, 1>>

Add(x, y) == Frac(x[1] * y[2] + y[1] * x[2], x[2] * y[2])

Sub(x, y) == Frac(x[1] * y[2] - y[1] * x[2], x[2] * y[2])

Mul(x, y) == Frac(x[1] * y[1], x[2] * y[2])

Div(x, y) == Frac(x[1] * y[2], x[2] * y[1])

Inv(x) == Div(Num(1), x)

IsZero(x) == x[1] = 0 /\ x[2] # 0

Less(x, y) == x[1] * y[2] < y[1] * x[2]

Leq(x, y) == x[1] * y[2] <= y[1] * x[2]

\* -------------------------------------------------------------------- heap
Names == {1, 2, 3}
NULL == 0
MaxAddr == 4 * Cardinality(Names) + 1
Addrs == 1..MaxAddr

Free == [cls |-> "free"]

\* the k-th smallest free address of h
Fresh(h, k) ==
  CHOOSE a \in Addrs :
    /\ h[a].cls = "free"
    /\ Cardinality({b \in Addrs : b < a /\ h[b].cls = "free"}) = k - 1

IsGaus(h, a) == a # NULL /\ h[a].cls = "Gaus1D"

IsMulti(h, a) == a # NULL /\ h[a].cls = "Multinomial"

\* the cells of an object: itself, then the dictionaries it refers to
Cells(h, a) ==
  IF a = NULL THEN <<>>
  ELSE IF h[a].cls = "Multinomial" THEN <<a, h[a]._n, h[a]._p, h[a].labels>>
  ELSE <<a>>

Owned(h, a) == {Cells(h, a)[i] : i \in 1..Len(Cells(h, a))}

RECURSIVE Dedupe(_, _)
Dedupe(seq, seen) ==
  IF seq = <<>> THEN <<>>
  ELSE IF Head(seq) \in seen THEN Dedupe(Tail(seq), seen)
  ELSE <<Head(seq)>> \o Dedupe(Tail(seq), seen \cup {Head(seq)})

Pos(seq, x) == CHOOSE i \in 1..Len(seq) : seq[i] = x

\* Cells no name reaches are reclaimed and the live ones are laid out in the
\* order the names reach them: an address has no meaning beyond identity.
Compact(e, h) ==
  LET ord == Dedupe(Cells(h, e[1]) \o Cells(h, e[2]) \o Cells(h, e[3]), {})
      Move(c) == IF c.cls = "Multinomial"
                 THEN [c EXCEPT !._n = Pos(ord, c._n), !._p = Pos(ord, c._p),
                                !.labels = Pos(ord, c.labels)]
                 ELSE c
  IN  [env |-> [s \in Names |-> IF e[s] = NULL THEN NULL ELSE Pos(ord, e[s])],
       heap |-> [a \in Addrs |-> IF a <= Len(ord) THEN Move(h[ord[a]]) ELSE Free]]

IntRef(k) == [isint |-> TRUE, i |-> k, s |-> ""]

StrRef(k) == [isint |-> FALSE, i |-> 0, s |-> k]

NoLabels == [k \in {} |-> 0]

NoCall == [op |-> "none", name |-> 0, a |-> 0, b |-> 0, arg |-> None,
           ref |-> IntRef(0), labels |-> NoLabels, raised |-> FALSE]

\* ------------------------------------------------------------------ Gaus1D
Gaus1D_init(h, mean, variance, prior_strength) ==
  IF IsZero(variance) \/ Less(prior_strength, Num(2))
  THEN [heap |-> h, raised |-> TRUE, ret |-> NULL]
  ELSE LET a == Fresh(h, 1)
       IN  [heap |-> [h EXCEPT ![a] =
                        [cls |-> "Gaus1D", mean |-> mean, variance |-> variance,
                         n |-> prior_strength,
                         M2 |-> Mul(variance, Sub(prior_strength, Num(1)))]],
            raised |-> FALSE, ret |-> a]

\* Faulty variant: M2 rescaled by n instead of n - 1
Gaus1D_set_prior_strength_by_n(h, self, prior_strength) ==
  IF Less(prior_strength, Num(2))
  THEN [heap |-> h, raised |-> TRUE, ret |-> NULL]
  ELSE [heap |-> [h EXCEPT ![self].n = prior_strength,
                           ![self].M2 = Mul(h[self].variance, prior_strength)],
        raised |-> FALSE, ret |-> NULL]

Gaus1D_set_prior_strength(h, self, prior_strength) ==
  IF Less(prior_strength, Num(2))
  THEN [heap |-> h, raised |-> TRUE, ret |-> NULL]
  ELSE [heap |-> [h EXCEPT ![self].n = prior_strength,
                           ![self].M2 = Mul(h[self].variance,
                                            Sub(prior_strength, Num(1)))],
        raised |-> FALSE, ret |-> NULL]

\* Faulty variant: the second factor of the M2 increment uses the mean before the update
Gaus1D_update_stale_mean(h, self, point) ==
  IF IsNone(h[self].n)
  THEN [heap |-> h, raised |-> TRUE, ret |-> NULL]
  ELSE LET n1 == Add(h[self].n, Num(1))
           delta == Sub(point, h[self].mean)
           mean1 == Add(h[self].mean, Div(delta, n1))
           M21 == Add(h[self].M2, Mul(delta, Sub(point, h[self].mean)))
           variance1 == Div(M21, Sub(n1, Num(1)))
       IN  [heap |-> [h EXCEPT ![self].n = n1, ![self].mean = mean1,
                               ![self].M2 = M21, ![self].variance = variance1],
            raised |-> IsZero(variance1), ret |-> NULL]

Gaus1D_update(h, self, point) ==
  IF IsNone(h[self].n)
  THEN [heap |-> h, raised |-> TRUE, ret |-> NULL]
  ELSE LET n1 == Add(h[self].n, Num(1))
           delta == Sub(point, h[self].mean)
           mean1 == Add(h[self].mean, Div(delta, n1))
           M21 == Add(h[self].M2, Mul(delta, Sub(point, mean1)))
           variance1 == Div(M21, Sub(n1, Num(1)))
       IN  [heap |-> [h EXCEPT ![self].n = n1, ![self].mean = mean1,
                               ![self].M2 = M21, ![self].variance = variance1],
            raised |-> IsZero(variance1), ret |-> NULL]

Gaus1D_copy(h, self) ==
  LET a == Fresh(h, 1)
  IN  [heap |-> [h EXCEPT ![a] = h[self]], raised |-> FALSE, ret |-> a]

\* Faulty variant: both means weighted by the precision of self
Gaus1D_mul_self_precision(h, self, g2) ==
  IF ~IsGaus(h, g2) THEN [heap |-> h, raised |-> TRUE, ret |-> NULL]
  ELSE IF IsZero(h[self].variance) \/ IsZero(h[g2].variance)
  THEN [heap |-> h, raised |-> TRUE, ret |-> NULL]
  ELSE IF IsZero(Add(Inv(h[self].variance), Inv(h[g2].variance)))
  THEN [heap |-> h, raised |-> TRUE, ret |-> NULL]
  ELSE LET variance_3 == Inv(Add(Inv(h[self].variance), Inv(h[g2].variance)))
           mean_3 == Add(Mul(Mul(variance_3, Inv(h[self].variance)), h[self].mean),
                         Mul(Mul(variance_3, Inv(h[self].variance)), h[g2].mean))
           c == Gaus1D_copy(h, self)
           return_gaus == c.ret
       IN  [heap |-> [c.heap EXCEPT ![return_gaus].variance = variance_3,
                                    ![return_gaus].mean = mean_3,
                                    ![return_gaus].M2 = None,
                                    ![return_gaus].n = None],
            raised |-> FALSE, ret |-> return_gaus]

Gaus1D_mul(h, self, g2) ==
  IF ~IsGaus(h, g2) THEN [heap |-> h, raised |-> TRUE, ret |-> NULL]
  ELSE IF IsZero(h[self].variance) \/ IsZero(h[g2].variance)
  THEN [heap |-> h, raised |-> TRUE, ret |-> NULL]
  ELSE IF IsZero(Add(Inv(h[self].variance), Inv(h[g2].variance)))
  THEN [heap |-> h, raised |-> TRUE, ret |-> NULL]
  ELSE LET variance_3 == Inv(Add(Inv(h[self].variance), Inv(h[g2].variance)))
           mean_3 == Add(Mul(Mul(variance_3, Inv(h[self].variance)), h[self].mean),
                         Mul(Mul(variance_3, Inv(h[g2].variance)), h[g2].mean))
           c == Gaus1D_copy(h, self)
           return_gaus == c.ret
       IN  [heap |-> [c.heap EXCEPT ![return_gaus].variance = variance_3,
                                    ![return_gaus].mean = mean_3,
                                    ![return_gaus].M2 = None,
                                    ![return_gaus].n = None],
            raised |-> FALSE, ret |-> return_gaus]

\* ------------------------------------------------------------- Multinomial
RECURSIVE SumTo(_, _)
SumTo(d, k) == IF k < 0 THEN Num(0) ELSE Add(SumTo(d, k - 1), d[k])

\* sum of the values of a dictionary keyed 0..size-1
Sum(d) == SumTo(d, Cardinality(DOMAIN d) - 1)

HasNone(d) == \E k \in DOMAIN d : IsNone(d[k])

Multinomial_init(h, size, prior_strength) ==
  IF size < 1 THEN [heap |-> h, raised |-> TRUE, ret |-> NULL]
  ELSE LET a == Fresh(h, 1)
           an == Fresh(h, 2)
           ap == Fresh(h, 3)
           al == Fresh(h, 4)
       IN  [heap |-> [h EXCEPT
              ![a] = [cls |-> "Multinomial", _n |-> an, _p |-> ap, size |-> size,
                      labeled |-> FALSE, labels |-> al],
              ![an] = [cls |-> "dict", items |-> [k \in 0..(size - 1) |-> prior_strength]],
              ![ap] = [cls |-> "dict", items |-> [k \in 0..(size - 1) |-> Frac(1, size)]],
              ![al] = [cls |-> "labels", map |-> NoLabels]],
            raised |-> FALSE, ret |-> a]

\* Faulty variant: copy.copy, a new object on the dictionaries of the old one
Multinomial_copy_shallow(h, self) ==
  LET a == Fresh(h, 1)
  IN  [heap |-> [h EXCEPT ![a] = h[self]], raised |-> FALSE, ret |-> a]

Multinomial_copy(h, self) ==
  LET a == Fresh(h, 1)
      an == Fresh(h, 2)
      ap == Fresh(h, 3)
      al == Fresh(h, 4)
  IN  [heap |-> [h EXCEPT
         ![a] = [h[self] EXCEPT !._n = an, !._p = ap, !.labels = al],
         ![an] = h[h[self]._n],
         ![ap] = h[h[self]._p],
         ![al] = h[h[self].labels]],
       raised |-> FALSE, ret |-> a]

Multinomial_reset_labels(h, self) ==
  LET al == Fresh(h, 1)
  IN  [heap |-> [h EXCEPT ![al] = [cls |-> "labels", map |-> NoLabels],
                          ![self].labels = al, ![self].labeled = FALSE],
       raised |-> FALSE, ret |-> NULL]

Multinomial_relabel(h, self, labels) ==
  IF Cardinality(DOMAIN labels) # h[self].size
  THEN [heap |-> h, raised |-> TRUE, ret |-> NULL]
  ELSE IF \E k \in DOMAIN labels :
            \/ labels[k] \notin 0..(h[self].size - 1)
            \/ \E j \in DOMAIN labels : j # k /\ labels[j] = labels[k]
  THEN [heap |-> h, raised |-> TRUE, ret |-> NULL]
  ELSE LET al == Fresh(h, 1)
       IN  [heap |-> [h EXCEPT ![al] = [cls |-> "labels", map |-> labels],
                               ![self].labels = al, ![self].labeled = TRUE],
            raised |-> FALSE, ret |-> NULL]

\* The KeyError of line 82 is built and dropped, and the range test of line 83
\* guards no statement: an unresolved reference is returned as it came.
Multinomial_label_to_index(h, self, i) ==
  LET map == h[h[self].labels].map
  IN  IF h[self].labeled /\ ~i.isint /\ i.s \in DOMAIN map
      THEN IntRef(map[i.s])
      ELSE i

HasKey(d, index) == index.isint /\ index.i \in DOMAIN d

Multinomial_get_p(h, self, class_label) ==
  h[h[self]._p].items[Multinomial_label_to_index(h, self, class_label).i]

\* Faulty variant: the except clause also covers the normalisation
Multinomial_update_swallow(h, self, class_label, weight) ==
  LET index == Multinomial_label_to_index(h, self, class_label)
      an == h[self]._n
      h1 == IF HasKey(h[an].items, index) /\ ~IsNone(h[an].items[index.i])
            THEN [h EXCEPT ![an].items[index.i] = Add(@, weight)]
            ELSE h
      n1 == h1[an].items
      ap == Fresh(h1, 1)
  IN  IF HasNone(n1) THEN [heap |-> h1, raised |-> FALSE, ret |-> NULL]
      ELSE IF IsZero(Sum(n1)) THEN [heap |-> h1, raised |-> FALSE, ret |-> NULL]
      ELSE [heap |-> [h1 EXCEPT
              ![ap] = [cls |-> "dict",
                       items |-> [k \in DOMAIN n1 |-> Div(n1[k], Sum(n1))]],
              ![self]._p = ap],
            raised |-> FALSE, ret |-> NULL]

Multinomial_update(h, self, class_label, weight) ==
  LET index == Multinomial_label_to_index(h, self, class_label)
      an == h[self]._n
      h1 == IF HasKey(h[an].items, index) /\ ~IsNone(h[an].items[index.i])
            THEN [h EXCEPT ![an].items[index.i] = Add(@, weight)]
            ELSE h
      n1 == h1[an].items
      ap == Fresh(h1, 1)
  IN  IF HasNone(n1) THEN [heap |-> h1, raised |-> TRUE, ret |-> NULL]
      ELSE IF IsZero(Sum(n1)) THEN [heap |-> h1, raised |-> TRUE, ret |-> NULL]
      ELSE [heap |-> [h1 EXCEPT
              ![ap] = [cls |-> "dict",
                       items |-> [k \in DOMAIN n1 |-> Div(n1[k], Sum(n1))]],
              ![self]._p = ap],
            raised |-> FALSE, ret |-> NULL]

Multinomial_set_prior_strength(h, self, prior_strength) ==
  IF Leq(prior_strength, Num(0)) THEN [heap |-> h, raised |-> TRUE, ret |-> NULL]
  ELSE LET an == Fresh(h, 1)
           p == h[h[self]._p].items
       IN  [heap |-> [h EXCEPT
              ![an] = [cls |-> "dict",
                       items |-> [k \in DOMAIN h[h[self]._n].items |->
                                    Mul(prior_strength, p[k])]],
              ![self]._n = an],
            raised |-> FALSE, ret |-> NULL]

Multinomial_mul(h, self, b1) ==
  IF ~IsMulti(h, b1) THEN [heap |-> h, raised |-> TRUE, ret |-> NULL]
  ELSE IF h[self].size # h[b1].size THEN [heap |-> h, raised |-> TRUE, ret |-> NULL]
  ELSE LET c == Multinomial_copy(h, self)
           b_new == c.ret
           h1 == c.heap
           prod == [i \in 0..(h[self].size - 1) |->
                      Mul(Multinomial_get_p(h1, self, IntRef(i)),
                          Multinomial_get_p(h1, b1, IntRef(i)))]
           h2 == [h1 EXCEPT ![h1[b_new]._p].items = prod,
                            ![h1[b_new]._n].items =
                               [i \in 0..(h[self].size - 1) |-> None]]
           norm == Sum(prod)
           ap == Fresh(h2, 1)
       IN  IF IsZero(norm) THEN [heap |-> h2, raised |-> TRUE, ret |-> NULL]
           ELSE [heap |-> [h2 EXCEPT
                   ![ap] = [cls |-> "dict",
                            items |-> [i \in DOMAIN prod |-> Div(prod[i], norm)]],
                   ![b_new]._p = ap],
                 raised |-> FALSE, ret |-> b_new]

\* ------------------------------------------------------------------ driver
\* arguments of the calls
Means == {Num(0), Num(2)}
Variances == {Num(-6), Num(0), Num(4)}
Strengths == {Num(1), Num(2), Num(3)}
Points == {Num(3)}
Sizes == {0, 1, 2}
Priors == {Num(1)}
Scales == {Num(0), Num(2)}
Weights == {Num(1), Num(-3)}
Refs == {IntRef(0), IntRef(1), IntRef(2), StrRef("a"), StrRef("z")}
LabelMaps == {("a" :> 0), ("a" :> 0 @@ "b" :> 1), ("a" :> 1 @@ "b" :> 0),
              ("a" :> 0 @@ "b" :> 0), ("a" :> 0 @@ "b" :> 2)}
\* arguments of the calls where several objects are fused and copied
FusedMeans == {Num(0), Num(2)}
FusedVariances == {Num(1), Num(4)}
FusedStrengths == {Num(2)}
FusedSizes == {1, 2}
FusedWeights == {Num(1)}
FusedRefs == {IntRef(0), IntRef(1)}
FusedScales == {Num(2)}
FusedLabelMaps == {("a" :> 0 @@ "b" :> 1)}

Init ==
  /\ env = [s \in Names |-> NULL]
  /\ heap = [a \in Addrs |-> Free]
  /\ last = NoCall
  /\ calls = 0
  /\ relabelled = {}

\* A name is bound once.  Names 1 and 2 are bound in this order to created
\* objects, all Gaus1D or all Multinomial; name 3 is bound to a copy or a product.
Unbound(s) == env[s] = NULL /\ (s = 2 => env[1] # NULL)

\* bind name s to the object a call returned, unless the call raised
Bind(s, r, call) ==
  LET c == Compact(IF r.raised THEN env ELSE [env EXCEPT ![s] = r.ret], r.heap)
  IN  /\ env' = c.env
      /\ heap' = c.heap
      /\ last' = [call EXCEPT !.raised = r.raised]
      /\ UNCHANGED <<calls, relabelled>>

\* a method call on a bound object has mutated the heap, or raised, or both
Mutate(r, call) ==
  LET c == Compact(env, r.heap)
  IN  /\ calls < MaxCalls
      /\ calls' = calls + 1
      /\ env' = c.env
      /\ heap' = c.heap
      /\ last' = [call EXCEPT !.raised = r.raised]

GCreate(s, mean, variance, prior_strength) ==
  /\ Unbound(s)
  /\ \A t \in Names : env[t] = NULL \/ IsGaus(heap, env[t])
  /\ Bind(s, Gaus1D_init(heap, mean, variance, prior_strength),
          [NoCall EXCEPT !.op = "Gaus1D", !.name = s, !.arg = variance])

GSetPriorStrength(s, prior_strength) ==
  /\ IsGaus(heap, env[s])
  /\ Mutate(Gaus1D_set_prior_strength(heap, env[s], prior_strength),
            [NoCall EXCEPT !.op = "Gaus1D.set_prior_strength", !.name = s,
                           !.arg = prior_strength])
  /\ UNCHANGED relabelled

GUpdate(s, point) ==
  /\ IsGaus(heap, env[s])
  /\ Mutate(Gaus1D_update(heap, env[s], point),
            [NoCall EXCEPT !.op = "Gaus1D.update", !.name = s, !.arg = point])
  /\ UNCHANGED relabelled

GCopy(s, t) ==
  /\ IsGaus(heap, env[s])
  /\ Unbound(t)
  /\ Bind(t, Gaus1D_copy(heap, env[s]),
          [NoCall EXCEPT !.op = "Gaus1D.copy", !.name = t, !.a = s])

GMul(s, u, t) ==
  /\ IsGaus(heap, env[s])
  /\ env[u] # NULL
  /\ Unbound(t)
  /\ Bind(t, Gaus1D_mul(heap, env[s], env[u]),
          [NoCall EXCEPT !.op = "Gaus1D.__mul__", !.name = t, !.a = s, !.b = u])

MCreate(s, size, prior_strength) ==
  /\ Unbound(s)
  /\ \A t \in Names : env[t] = NULL \/ IsMulti(heap, env[t])
  /\ Bind(s, Multinomial_init(heap, size, prior_strength),
          [NoCall EXCEPT !.op = "Multinomial", !.name = s, !.arg = prior_strength])

MRelabel(s, labels) ==
  /\ IsMulti(heap, env[s])
  /\ LET r == Multinomial_relabel(heap, env[s], labels)
     IN  /\ Mutate(r, [NoCall EXCEPT !.op = "Multinomial.relabel", !.name = s,
                                     !.labels = labels])
         /\ relabelled' = IF r.raised THEN relabelled ELSE relabelled \cup {s}

MResetLabels(s) ==
  /\ IsMulti(heap, env[s])
  /\ Mutate(Multinomial_reset_labels(heap, env[s]),
            [NoCall EXCEPT !.op = "Multinomial.reset_labels", !.name = s])
  /\ UNCHANGED relabelled

MUpdate(s, class_label, weight) ==
  /\ IsMulti(heap, env[s])
  /\ Mutate(Multinomial_update(heap, env[s], class_label, weight),
            [NoCall EXCEPT !.op = "Multinomial.update", !.name = s,
                           !.ref = class_label, !.arg = weight])
  /\ UNCHANGED relabelled

MSetPriorStrength(s, prior_strength) ==
  /\ IsMulti(heap, env[s])
  /\ Mutate(Multinomial_set_prior_strength(heap, env[s], prior_strength),
            [NoCall EXCEPT !.op = "Multinomial.set_prior_strength", !.name = s,
                           !.arg = prior_strength])
  /\ UNCHANGED relabelled

MCopy(s, t) ==
  /\ IsMulti(heap, env[s])
  /\ Unbound(t)
  /\ Bind(t, Multinomial_copy(heap, env[s]),
          [NoCall EXCEPT !.op = "Multinomial.copy", !.name = t, !.a = s])

MMul(s, u, t) ==
  /\ IsMulti(heap, env[s])
  /\ env[u] # NULL
  /\ Unbound(t)
  /\ Bind(t, Multinomial_mul(heap, env[s], env[u]),
          [NoCall EXCEPT !.op = "Multinomial.__mul__", !.name = t, !.a = s, !.b = u])

\* Gaus1D and Multinomial objects created, copied, fused and updated side by side
Next ==
  \/ \E s \in {1, 2}, m \in FusedMeans, v \in FusedVariances, k \in FusedStrengths :
       GCreate(s, m, v, k)
  \/ \E s \in Names, k \in FusedStrengths : GSetPriorStrength(s, k)
  \/ \E s \in Names, x \in Points : GUpdate(s, x)
  \/ \E s \in Names : GCopy(s, 3)
  \/ \E s \in Names, u \in Names : GMul(s, u, 3)
  \/ \E s \in {1, 2}, z \in FusedSizes, k \in Priors : MCreate(s, z, k)
  \/ \E s \in Names, l \in FusedLabelMaps : MRelabel(s, l)
  \/ \E s \in Names, c \in FusedRefs, w \in FusedWeights : MUpdate(s, c, w)
  \/ \E s \in Names, k \in FusedScales : MSetPriorStrength(s, k)
  \/ \E s \in Names : MCopy(s, 3)
  \/ \E s \in Names, u \in Names : MMul(s, u, 3)

Spec == Init /\ [][Next]_vars

\* one Multinomial object through its whole interface
NextM ==
  \/ \E z \in Sizes, k \in Priors : MCreate(1, z, k)
  \/ \E l \in LabelMaps : MRelabel(1, l)
  \/ MResetLabels(1)
  \/ \E c \in Refs, w \in Weights : MUpdate(1, c, w)
  \/ \E k \in Scales : MSetPriorStrength(1, k)

\* one Gaus1D object through its whole interface
NextG ==
  \/ \E m \in Means, v \in Variances, k \in Strengths : GCreate(1, m, v, k)
  \/ \E k \in Strengths : GSetPriorStrength(1, k)
  \/ \E x \in Points : GUpdate(1, x)

SpecG == Init /\ [][NextG]_vars

SpecM == Init /\ [][NextM]_vars

\* ------------------------------------------------------- what a name holds
\* the object a name is bound to, its dictionaries read through
Val(e, h, s) ==
  IF e[s] = NULL THEN [cls |-> "unbound"]
  ELSE IF h[e[s]].cls = "Multinomial"
  THEN [cls |-> "Multinomial", size |-> h[e[s]].size, labeled |-> h[e[s]].labeled,
        _n |-> h[h[e[s]]._n].items, _p |-> h[h[e[s]]._p].items,
        labels |-> h[h[e[s]].labels].map]
  ELSE h[e[s]]

Bound(s) == env[s] # NULL

Counts(s) == heap[heap[env[s]]._n].items

Probs(s) == heap[heap[env[s]]._p].items

\* -------------------------------------------------------------------- C1
\* C1: every Gaus1D object has variance > 0 in every reachable state, also
\* after a call that raised.
C1_VariancePositive ==
  \A s \in Names : IsGaus(heap, env[s]) => Less(Num(0), heap[env[s]].variance)

\* -------------------------------------------------------------------- C2
\* C2: once a relabel call has succeeded on an object, every later relabel
\* call on it raises and leaves labeled and labels as they were.
C2_RelabelOnce ==
  [][(last'.op = "Multinomial.relabel" /\ last'.name \in relabelled)
       => /\ last'.raised
          /\ Val(env', heap', last'.name).labels = Val(env, heap, last'.name).labels
          /\ Val(env', heap', last'.name).labeled = Val(env, heap, last'.name).labeled]_vars

\* -------------------------------------------------------------------- C3
\* C3: for a created Multinomial, after any update and set_prior_strength
\* calls, every probability is >= 0, the probabilities sum to 1, and
\* probabilities[i] = counts[i] / sum(counts).
C3_Normalised ==
  IsMulti(heap, env[1]) =>
    /\ \A k \in DOMAIN Probs(1) : Leq(Num(0), Probs(1)[k])
    /\ Sum(Probs(1)) = Num(1)
    /\ ~IsZero(Sum(Counts(1)))
    /\ \A k \in DOMAIN Probs(1) : Probs(1)[k] = Div(Counts(1)[k], Sum(Counts(1)))

\* -------------------------------------------------------------------- C4
\* C4: for a created Multinomial, every count is > 0 after create and after
\* every update and set_prior_strength call that returned.
C4_CountsPositive ==
  (IsMulti(heap, env[1]) /\ ~last.raised) =>
    \A k \in DOMAIN Counts(1) : Less(Num(0), Counts(1)[k])

\* -------------------------------------------------------------------- C5
ValidRef(s, c) ==
  \/ c.isint /\ c.i \in 0..(heap[env[s]].size - 1)
  \/ ~c.isint /\ heap[env[s]].labeled /\ c.s \in DOMAIN Val(env, heap, s).labels

IndexOf(s, c) == IF c.isint THEN c.i ELSE Val(env, heap, s).labels[c.s]

\* C5: update with a valid class reference adds weight to counts[index] and
\* to no other count; with an unknown label or an integer out of range it
\* raises and changes neither counts nor probabilities.
C5_UpdateResolves ==
  [][last'.op = "Multinomial.update" =>
       LET s == last'.name
           c == last'.ref
       IN  IF ValidRef(s, c)
           THEN Val(env', heap', s)._n =
                  [Counts(s) EXCEPT ![IndexOf(s, c)] = Add(@, last'.arg)]
           ELSE /\ last'.raised
                /\ Val(env', heap', s)._n = Counts(s)
                /\ Val(env', heap', s)._p = Probs(s)]_vars

\* -------------------------------------------------------------------- C6
\* no cell is reached from two names
Disjoint(e, h) ==
  \A s \in Names, t \in Names : s # t => Owned(h, e[s]) \cap Owned(h, e[t]) = {}

\* C6: copy and multiply return a new object and leave their operands as they
\* were; no two objects share a cell, so a call on one object (update,
\* set_prior_strength, relabel) changes no other object.
C6_Independent ==
  [][/\ \A t \in Names :
          (Bound(t) /\ t # last'.name) => Val(env', heap', t) = Val(env, heap, t)
     /\ Disjoint(env', heap')]_vars

C6_Witness ==
  /\ last.op = "Multinomial.update" /\ last.name = 3 /\ ~last.raised
  /\ IsMulti(heap, env[1])
  /\ heap[env[1]].size = heap[env[3]].size
  /\ Counts(3) # Counts(1)

\* -------------------------------------------------------------------- C7
\* C7: a * b and b * a raise together or give the same mean and variance
\* (Gaus1D), the same probabilities (Multinomial).
C7_Commutative ==
  [][/\ last'.op = "Gaus1D.__mul__" =>
          LET r == Gaus1D_mul(heap, env[last'.b], env[last'.a])
          IN  /\ r.raised = last'.raised
              /\ ~r.raised =>
                   /\ r.heap[r.ret].mean = heap'[env'[last'.name]].mean
                   /\ r.heap[r.ret].variance = heap'[env'[last'.name]].variance
     /\ last'.op = "Multinomial.__mul__" =>
          LET r == Multinomial_mul(heap, env[last'.b], env[last'.a])
          IN  /\ r.raised = last'.raised
              /\ ~r.raised =>
                   r.heap[r.heap[r.ret]._p].items = Val(env', heap', last'.name)._p]_vars

C7_Witness ==
  /\ last.op = "Gaus1D.__mul__" /\ ~last.raised
  /\ heap[env[last.a]].mean # heap[env[last.b]].mean
  /\ heap[env[last.a]].variance # heap[env[last.b]].variance
  /\ heap[env[last.b]].mean # Num(0)

\* -------------------------------------------------------------------- C8
\* C8: update(point) is Welford's step: n' = n + 1, mean' = mean + delta / n',
\* M2' = M2 + delta * (point - mean') with delta = point - mean, and
\* variance' = M2' / (n' - 1); create(2, 4, 2) then update(3) gives n = 3,
\* mean = 7/3, M2 = 14/3, variance = 7/3.
C8_Welford ==
  [][last'.op = "Gaus1D.update" =>
       LET g == heap[env[last'.name]]
           g1 == heap'[env'[last'.name]]
           point == last'.arg
           delta == Sub(point, g.mean)
       IN  /\ g1.n = Add(g.n, Num(1))
           /\ g1.mean = Add(g.mean, Div(delta, g1.n))
           /\ g1.M2 = Add(g.M2, Mul(delta, Sub(point, g1.mean)))
           /\ g1.variance = Div(g1.M2, Sub(g1.n, Num(1)))
           /\ (g.mean = Num(2) /\ g.variance = Num(4) /\ g.n = Num(2)
                 /\ g.M2 = Num(4) /\ point = Num(3))
                => /\ g1.n = <<3, 1>>
                   /\ g1.mean = <<7, 3>>
                   /\ g1.M2 = <<14, 3>>
                   /\ g1.variance = <<7, 3>>]_vars

C8_Witness ==
  /\ last.op = "Gaus1D.update" /\ last.arg = Num(3)
  /\ heap[env[1]] = [cls |-> "Gaus1D", mean |-> <<7, 3>>, variance |-> <<7, 3>>,
                     n |-> <<3, 1>>, M2 |-> <<14, 3>>]

\* -------------------------------------------------------------------- C9
Fused(h, a) ==
  \/ IsGaus(h, a) /\ IsNone(h[a].n) /\ IsNone(h[a].M2)
  \/ IsMulti(h, a) /\ \A k \in DOMAIN h[h[a]._n].items : IsNone(h[h[a]._n].items[k])

\* C9: the product of a multiply has undefined counters (n and M2, or every
\* count); update on it, before any set_prior_strength, raises and leaves the
\* object as it was.
C9_FusedNotUpdatable ==
  [][/\ (last'.op \in {"Gaus1D.__mul__", "Multinomial.__mul__"} /\ ~last'.raised)
          => Fused(heap', env'[last'.name])
     /\ (last'.op \in {"Gaus1D.update", "Multinomial.update"}
           /\ Fused(heap, env[last'.name]))
          => /\ last'.raised
             /\ Val(env', heap', last'.name) = Val(env, heap, last'.name)]_vars

C9_Witness ==
  /\ last.op = "Multinomial.update" /\ last.raised
  /\ Fused(heap, env[last.name])

\* ------------------------------------------------------------------- C10
Sound(g) ==
  /\ Leq(Num(2), g.n)
  /\ g.variance = Div(g.M2, Sub(g.n, Num(1)))
  /\ Less(Num(0), g.M2)
  /\ Less(Num(0), g.variance)

\* C10: from a creation with variance > 0, set_prior_strength and update keep
\* n >= 2, variance = M2 / (n - 1), M2 > 0 and variance > 0; an update adds
\* delta^2 * (n - 1) / n >= 0 to M2 (n the new count) and does not raise.
C10_StaysPositive ==
  [][/\ (last'.op = "Gaus1D" /\ ~last'.raised /\ Less(Num(0), last'.arg))
          => Sound(heap'[env'[last'.name]])
     /\ (last'.op \in {"Gaus1D.update", "Gaus1D.set_prior_strength"}
           /\ Less(Num(0), heap[env[last'.name]].variance))
          => LET g == heap[env[last'.name]]
                 g1 == heap'[env'[last'.name]]
                 delta == Sub(last'.arg, g.mean)
             IN  /\ Sound(g1)
                 /\ last'.op = "Gaus1D.update" =>
                      /\ ~last'.raised
                      /\ Leq(g.M2, g1.M2)
                      /\ Sub(g1.M2, g.M2) =
                           Div(Mul(Mul(delta, delta), Sub(g1.n, Num(1))), g1.n)]_vars

C10_Witness ==
  /\ last.op = "Gaus1D.update" /\ ~last.raised /\ calls = 3
  /\ Less(Num(0), heap[env[1]].variance)
  /\ heap[env[1]].n = Num(4)

====
